---- MODULE Spec2Model ----
\* Model of multiClusterController.Run (pkg/controller/multicluster.go):
\* the loop that keeps one cluster controller (worker) per cluster defined in
\* the store, merging the store's watch stream, the reconcile ticker and the
\* context's cancellation.
EXTENDS Integers, Sequences, FiniteSets, TLC

\* ---------------------------------------------------------------- bounds
\* Spec: a bounded run (store mutations, timer ticks, receives by workers)
MaxStoreOps == 2
MaxTicks == 2
MaxReceives == 1
\* FairSpec: any number of ticks, workers that never receive
SteadyStoreOps == 1

\* ------------------------------------------------------ program constants
clusterControllerNotificationBuffer == 10

\* the cluster names (store keys) of the model
Clusters == {"a", "b"}

VARIABLES
    store,               \* names of the clusters defined in the store
    storeOps,            \* number of store mutations so far (bounded)
    ticks,               \* number of ticks counted so far (bounded in Spec)
    watch,               \* watch responses not yet received by the loop
    ticker,              \* time.Tick channel (buffer of one tick)
    ctxDone,             \* the context passed to Run has been cancelled
    pc,                  \* position of Run: running, returned, or a panic
    clusterControllers,  \* mcc.clusterControllers: name -> channel
    chans,               \* every channel made so far: [open, buf]
    workers,             \* cc.run goroutines started: [clusterName, ch]
    received,            \* notifications received by workers so far (bounded)
    last                 \* what the latest iteration of the loop did

vars == <<store, storeOps, ticks, watch, ticker, ctxDone, pc, clusterControllers,
          chans, workers, received, last>>

envVars == <<store, storeOps, ticks, watch, ticker, ctxDone, received>>
loopVars == <<pc, clusterControllers, chans, workers, last>>

\* ------------------------------------------------------------- channels
\* A channel is [open, buf]: buf is the number of notifications pending in
\* the buffer of an open channel. What is left in the buffer of a closed
\* channel is read by nothing in Run and is not tracked.
\* make(chan struct{}, clusterControllerNotificationBuffer)
MakeChan == [open |-> TRUE, buf |-> 0]

\* a send without the default case waits while the buffer is full
SendWaitsWhenFull(c) == ~c.open \/ c.buf < clusterControllerNotificationBuffer

\* the select around the send has a default case: it never waits
SendCompletes(c) == TRUE

\* the buffer test off by one: a send still goes through at full capacity
TrySendOutcomeOffByOne(c) ==
    IF ~c.open THEN "send on closed channel"
    ELSE IF c.buf <= clusterControllerNotificationBuffer THEN "sent"
    ELSE "dropped"

\* select { case ch <- struct{}{}: default: } on channel value c
TrySendOutcome(c) ==
    IF ~c.open THEN "send on closed channel"
    ELSE IF c.buf < clusterControllerNotificationBuffer THEN "sent"
    ELSE "dropped"

TrySend(c) ==
    IF TrySendOutcome(c) = "sent" THEN [c EXCEPT !.buf = c.buf + 1] ELSE c

\* close(ch)
CloseOutcome(c) == IF c.open THEN "close" ELSE "close of closed channel"

CloseChan(c) == [open |-> FALSE, buf |-> 0]

\* the lookup never finding the key
FoundNever(reg, clusterName) == FALSE

\* ch, found := mcc.clusterControllers[clusterName]
Found(reg, clusterName) == clusterName \in DOMAIN reg

\* the delete left out: the entry of a closed channel stays in the map
DeleteKeyForgotten(reg, clusterName) == reg

\* delete(mcc.clusterControllers, clusterName)
DeleteKey(reg, clusterName) ==
    [k \in DOMAIN reg \ {clusterName} |-> reg[k]]

\* ------------------------------------------------- steps of one iteration
\* An iteration works on st = [reg, chans, workers, log]; log lists, in
\* program order, what the iteration did.
Ev(e, ch, name) == [ev |-> e, ch |-> ch, name |-> name]

Start(reg, chs, wk) ==
    [reg |-> reg, chans |-> chs, workers |-> wk, log |-> <<>>, blocked |-> FALSE]

\* the worker started before its channel is put in the registry
DoRegisterStartFirst(st, clusterName) ==
    LET newChan == Len(st.chans) + 1
    IN [reg     |-> [k \in DOMAIN st.reg \cup {clusterName} |->
                        IF k = clusterName THEN newChan ELSE st.reg[k]],
        chans   |-> Append(st.chans, MakeChan),
        workers |-> st.workers \cup {[clusterName |-> clusterName, ch |-> newChan]},
        log     |-> st.log \o << Ev("make", newChan, clusterName),
                                 Ev("start", newChan, clusterName),
                                 Ev("register", newChan, clusterName) >>,
        blocked |-> st.blocked]

\* newChan := make(...); mcc.clusterControllers[clusterName] = newChan;
\* go cc.run(newChan)
DoRegister(st, clusterName) ==
    LET newChan == Len(st.chans) + 1
    IN [reg     |-> [k \in DOMAIN st.reg \cup {clusterName} |->
                        IF k = clusterName THEN newChan ELSE st.reg[k]],
        chans   |-> Append(st.chans, MakeChan),
        workers |-> st.workers \cup {[clusterName |-> clusterName, ch |-> newChan]},
        log     |-> st.log \o << Ev("make", newChan, clusterName),
                                 Ev("register", newChan, clusterName),
                                 Ev("start", newChan, clusterName) >>,
        blocked |-> st.blocked]

\* the non-blocking send on the channel ch
DoSend(st, ch, clusterName) ==
    [st EXCEPT !.chans[ch] = TrySend(st.chans[ch]),
               !.log = Append(st.log, Ev(TrySendOutcome(st.chans[ch]), ch, clusterName)),
               !.blocked = st.blocked \/ ~SendCompletes(st.chans[ch])]

\* close(ch)
DoClose(st, ch, clusterName) ==
    [st EXCEPT !.chans[ch] = CloseChan(st.chans[ch]),
               !.log = Append(st.log, Ev(CloseOutcome(st.chans[ch]), ch, clusterName))]

\* the delete statement left out of the iteration
DoDeleteSkipped(st, clusterName) == st

\* delete(mcc.clusterControllers, clusterName)
DoDelete(st, clusterName) ==
    [st EXCEPT !.reg = DeleteKey(st.reg, clusterName),
               !.log = Append(st.log, Ev("delete", st.reg[clusterName], clusterName))]

\* mcc.newClusterController(clusterName, cluster) returning ok or an error
DoFactory(st, clusterName, ok) ==
    [st EXCEPT !.log = Append(st.log,
        Ev(IF ok THEN "factory ok" ELSE "factory error", 0, clusterName))]

\* a panic raised by the iteration, if any
PanicOf(log) ==
    IF \E i \in 1..Len(log) : log[i].ev = "send on closed channel"
        THEN "panic: send on closed channel"
    ELSE IF \E i \in 1..Len(log) : log[i].ev = "close of closed channel"
        THEN "panic: close of closed channel"
    ELSE "none"

\* the next key of a range over a map (the order is unspecified)
Pick(S) == CHOOSE x \in S : TRUE

\* ------------------------------------------------------------ tick case
\* the creation loop without the !found test
RECURSIVE CreateMissingNoFoundTest(_, _, _)
CreateMissingNoFoundTest(st, todo, okSet) ==
    IF todo = {} THEN st
    ELSE LET n == Pick(todo)
             s1 == IF n \in okSet \/ Found(st.reg, n)
                   THEN DoRegister(DoFactory(st, n, TRUE), n)
                   ELSE DoFactory(st, n, FALSE)
         IN CreateMissingNoFoundTest(s1, todo \ {n}, okSet)

\* the creation loop left (break) at the first Factory error
RECURSIVE CreateMissingBreakOnError(_, _, _)
CreateMissingBreakOnError(st, todo, okSet) ==
    IF todo = {} THEN st
    ELSE LET n == Pick(todo)
         IN IF Found(st.reg, n) THEN CreateMissingBreakOnError(st, todo \ {n}, okSet)
            ELSE IF n \in okSet
                 THEN CreateMissingBreakOnError(
                        DoRegister(DoFactory(st, n, TRUE), n), todo \ {n}, okSet)
                 ELSE DoFactory(st, n, FALSE)

\* for clusterName, cluster := range definedClusters { if !found { ... } }
RECURSIVE CreateMissing(_, _, _)
CreateMissing(st, todo, okSet) ==
    IF todo = {} THEN st
    ELSE LET n == Pick(todo)
             s1 == IF Found(st.reg, n) THEN st
                   ELSE IF n \in okSet
                        THEN DoRegister(DoFactory(st, n, TRUE), n)
                        ELSE DoFactory(st, n, FALSE)
         IN CreateMissing(s1, todo \ {n}, okSet)

\* the test of the removal loop inverted
LingeringInverted(reg, definedClusters) ==
    {k \in DOMAIN reg : k \in definedClusters}

\* the registry keys the removal loop treats as lingering
Lingering(reg, definedClusters) ==
    {k \in DOMAIN reg : k \notin definedClusters}

\* the removal loop closing the channel but keeping the entry
RECURSIVE RemoveLingeringKeepEntry(_, _)
RemoveLingeringKeepEntry(st, todo) ==
    IF todo = {} THEN st
    ELSE LET n == Pick(todo)
         IN RemoveLingeringKeepEntry(DoClose(st, st.reg[n], n), todo \ {n})

\* for clusterName, ch := range mcc.clusterControllers { if !found { close; delete } }
RECURSIVE RemoveLingering(_, _)
RemoveLingering(st, todo) ==
    IF todo = {} THEN st
    ELSE LET n == Pick(todo)
         IN RemoveLingering(DoDelete(DoClose(st, st.reg[n], n), n), todo \ {n})

\* for clusterName, ch := range mcc.clusterControllers { select { send; default } }
RECURSIVE PokeAll(_, _)
PokeAll(st, todo) ==
    IF todo = {} THEN st
    ELSE LET n == Pick(todo)
         IN PokeAll(DoSend(st, st.reg[n], n), todo \ {n})

\* the tick case sending a first notification when it creates a worker, as
\* the watch case does
ReconcileNotifiesCreated(st, definedClusters, okSet) ==
    LET s1 == CreateMissing(st, definedClusters, okSet)
        s2 == PokeAll(s1, DOMAIN s1.reg \ DOMAIN st.reg)
        s3 == RemoveLingering(s2, Lingering(s2.reg, definedClusters))
    IN PokeAll(s3, DOMAIN s3.reg)

\* the tick case with the creation loop left out
ReconcileNoCreate(st, definedClusters, okSet) ==
    LET s2 == RemoveLingering(st, Lingering(st.reg, definedClusters))
    IN PokeAll(s2, DOMAIN s2.reg)

\* the tick case with the notification loop placed first
ReconcilePokeFirst(st, definedClusters, okSet) ==
    LET s0 == PokeAll(st, DOMAIN st.reg)
        s1 == CreateMissing(s0, definedClusters, okSet)
    IN RemoveLingering(s1, Lingering(s1.reg, definedClusters))

\* the whole tick case once GetAll has returned definedClusters
Reconcile(st, definedClusters, okSet) ==
    LET s1 == CreateMissing(st, definedClusters, okSet)
        s2 == RemoveLingering(s1, Lingering(s1.reg, definedClusters))
    IN PokeAll(s2, DOMAIN s2.reg)

\* -------------------------------------------------------- shutdown case
\* the shutdown loop leaving after the first close
CloseAllFirstOnly(st, todo) ==
    IF todo = {} THEN st
    ELSE LET n == Pick(todo)
         IN DoClose(st, st.reg[n], n)

\* for _, v := range mcc.clusterControllers { close(v) }
RECURSIVE CloseAll(_, _)
CloseAll(st, todo) ==
    IF todo = {} THEN st
    ELSE LET n == Pick(todo)
         IN CloseAll(DoClose(st, st.reg[n], n), todo \ {n})

\* ---------------------------------------------------------------- state
NoStep == [op |-> "none", key |-> "", pre |-> <<>>, snapshot |-> {}, log |-> <<>>]

Init ==
    /\ store \in SUBSET Clusters
    /\ storeOps = 0
    /\ ticks = 0
    /\ watch = <<>>
    /\ ticker = 0
    /\ ctxDone = FALSE
    /\ pc = "running"
    /\ clusterControllers = <<>>
    /\ chans = <<>>
    /\ workers = {}
    /\ received = 0
    /\ last = NoStep

\* the iteration ends: commit its effects
Commit(st, op, key, snapshot, next) ==
    /\ ~st.blocked
    /\ clusterControllers' = st.reg
    /\ chans' = st.chans
    /\ workers' = st.workers
    /\ last' = [op |-> op, key |-> key, pre |-> clusterControllers,
                snapshot |-> snapshot, log |-> st.log]
    /\ pc' = IF PanicOf(st.log) # "none" THEN PanicOf(st.log) ELSE next

Cur == Start(clusterControllers, chans, workers)

\* ----------------------------------------------------- the environment
\* a cluster is created or updated in the store; the store emits a watch event
StorePut(c, maxOps) ==
    /\ storeOps < maxOps
    /\ store' = store \cup {c}
    /\ storeOps' = storeOps + 1
    /\ watch' = Append(watch, [Key |-> c, Value |-> "def"])
    /\ UNCHANGED <<ticks, ticker, ctxDone, received, loopVars>>

\* a cluster is deleted from the store; the watch event has a nil value
StoreDelete(c, maxOps) ==
    /\ storeOps < maxOps
    /\ c \in store
    /\ store' = store \ {c}
    /\ storeOps' = storeOps + 1
    /\ watch' = Append(watch, [Key |-> c, Value |-> "nil"])
    /\ UNCHANGED <<ticks, ticker, ctxDone, received, loopVars>>

\* time.Tick(mcc.reconcileFreq): the ticker's channel holds at most one tick
TimerFire ==
    /\ ticker = 0
    /\ ticks < MaxTicks
    /\ ticks' = ticks + 1
    /\ ticker' = 1
    /\ UNCHANGED <<store, storeOps, watch, ctxDone, received, loopVars>>

\* the same, the ticks not counted
TimerKeepsFiring ==
    /\ ticker = 0
    /\ ticker' = 1
    /\ UNCHANGED <<store, storeOps, ticks, watch, ctxDone, received, loopVars>>

\* the caller cancels the context
Cancel ==
    /\ ~ctxDone
    /\ ctxDone' = TRUE
    /\ UNCHANGED <<store, storeOps, ticks, watch, ticker, received, loopVars>>

\* a worker receives one notification from its channel
WorkerReceive(ch) ==
    /\ chans[ch].open
    /\ chans[ch].buf > 0
    /\ received < MaxReceives
    /\ received' = received + 1
    /\ chans' = [chans EXCEPT ![ch].buf = @ - 1]
    /\ UNCHANGED <<store, storeOps, ticks, watch, ticker, ctxDone, pc, clusterControllers, workers, last>>

\* ------------------------------------------------------------ the loop
\* the deletion without its continue: the send below is reached
WatchDeleteFallsThrough ==
    /\ pc = "running"
    /\ watch # <<>>
    /\ LET resp == Head(watch)
           ch == clusterControllers[resp.Key]
       IN /\ Found(clusterControllers, resp.Key)
          /\ resp.Value = "nil"
          /\ Commit(DoSend(DoDelete(DoClose(Cur, ch, resp.Key), resp.Key), ch, resp.Key),
                    "watch", resp.Key, {}, "running")
    /\ watch' = Tail(watch)
    /\ UNCHANGED <<store, storeOps, ticks, ticker, ctxDone, received>>

\* case resp := <-watch, found && resp.Value == nil
WatchDelete ==
    /\ pc = "running"
    /\ watch # <<>>
    /\ LET resp == Head(watch)
       IN /\ Found(clusterControllers, resp.Key)
          /\ resp.Value = "nil"
          /\ Commit(DoDelete(DoClose(Cur, clusterControllers[resp.Key], resp.Key), resp.Key),
                    "watch", resp.Key, {}, "running")
    /\ watch' = Tail(watch)
    /\ UNCHANGED <<store, storeOps, ticks, ticker, ctxDone, received>>

\* a decoder that accepts every value
DecodesAnything(value, wellFormed) == TRUE

\* a decoder that accepts the nil value of a deletion
DecodesNil(value, wellFormed) == wellFormed

\* json.Unmarshal(resp.Value, &cluster): a nil value never decodes
Decodes(value, wellFormed) == value # "nil" /\ wellFormed

\* case resp := <-watch, !found, json.Unmarshal fails
WatchDecodeError ==
    /\ pc = "running"
    /\ watch # <<>>
    /\ LET resp == Head(watch)
       IN /\ ~Found(clusterControllers, resp.Key)
          /\ \E wellFormed \in BOOLEAN :
                /\ ~Decodes(resp.Value, wellFormed)
                /\ Commit(Cur, "watch", resp.Key, {}, "running")
    /\ watch' = Tail(watch)
    /\ UNCHANGED <<store, storeOps, ticks, ticker, ctxDone, received>>

\* the Factory error without its continue: the nil controller is registered
WatchFactoryErrorFallsThrough ==
    /\ pc = "running"
    /\ watch # <<>>
    /\ LET resp == Head(watch)
       IN /\ ~Found(clusterControllers, resp.Key)
          /\ Decodes(resp.Value, TRUE)
          /\ LET s1 == DoRegister(DoFactory(Cur, resp.Key, FALSE), resp.Key)
             IN Commit(DoSend(s1, s1.reg[resp.Key], resp.Key),
                       "watch", resp.Key, {}, "running")
    /\ watch' = Tail(watch)
    /\ UNCHANGED <<store, storeOps, ticks, ticker, ctxDone, received>>

\* case resp := <-watch, !found, newClusterController fails
WatchFactoryError ==
    /\ pc = "running"
    /\ watch # <<>>
    /\ LET resp == Head(watch)
       IN /\ ~Found(clusterControllers, resp.Key)
          /\ Decodes(resp.Value, TRUE)
          /\ Commit(DoFactory(Cur, resp.Key, FALSE), "watch", resp.Key, {}, "running")
    /\ watch' = Tail(watch)
    /\ UNCHANGED <<store, storeOps, ticks, ticker, ctxDone, received>>

\* case resp := <-watch, !found, controller created, then the send
WatchCreate ==
    /\ pc = "running"
    /\ watch # <<>>
    /\ LET resp == Head(watch)
       IN /\ ~Found(clusterControllers, resp.Key)
          /\ Decodes(resp.Value, TRUE)
          /\ LET s1 == DoRegister(DoFactory(Cur, resp.Key, TRUE), resp.Key)
             IN Commit(DoSend(s1, s1.reg[resp.Key], resp.Key),
                       "watch", resp.Key, {}, "running")
    /\ watch' = Tail(watch)
    /\ UNCHANGED <<store, storeOps, ticks, ticker, ctxDone, received>>

\* case resp := <-watch, found, value not nil: only the send
WatchNotify ==
    /\ pc = "running"
    /\ watch # <<>>
    /\ LET resp == Head(watch)
       IN /\ Found(clusterControllers, resp.Key)
          /\ resp.Value # "nil"
          /\ Commit(DoSend(Cur, clusterControllers[resp.Key], resp.Key),
                    "watch", resp.Key, {}, "running")
    /\ watch' = Tail(watch)
    /\ UNCHANGED <<store, storeOps, ticks, ticker, ctxDone, received>>

\* return instead of continue after a failed GetAll
OnSnapshotErrorReturn == "returned"

\* if err != nil { log; continue }: the loop goes on after a failed GetAll
OnSnapshotError == "running"

\* the GetAll error without its continue: the tick goes on with no cluster
TickErrorFallsThrough ==
    /\ pc = "running"
    /\ ticker = 1
    /\ ticker' = 0
    /\ Commit(Reconcile(Cur, {}, {}), "tick error", "", {}, OnSnapshotError)
    /\ UNCHANGED <<store, storeOps, ticks, watch, ctxDone, received>>

\* case <-ticker, GetAll returns an error
TickError ==
    /\ pc = "running"
    /\ ticker = 1
    /\ ticker' = 0
    /\ Commit(Cur, "tick error", "", {}, OnSnapshotError)
    /\ UNCHANGED <<store, storeOps, ticks, watch, ctxDone, received>>

\* case <-ticker, GetAll returns the clusters defined in the store
Tick ==
    /\ pc = "running"
    /\ ticker = 1
    /\ ticker' = 0
    /\ \E okSet \in SUBSET store :
          Commit(Reconcile(Cur, store, okSet), "tick", "", store, "running")
    /\ UNCHANGED <<store, storeOps, ticks, watch, ctxDone, received>>

\* case <-ctx.Done()
Shutdown ==
    /\ pc = "running"
    /\ ctxDone
    /\ Commit(CloseAll(Cur, DOMAIN clusterControllers), "shutdown", "", {}, "returned")
    /\ UNCHANGED <<store, storeOps, ticks, watch, ticker, ctxDone, received>>

Next ==
    \/ \E c \in Clusters : StorePut(c, MaxStoreOps)
    \/ \E c \in Clusters : StoreDelete(c, MaxStoreOps)
    \/ TimerFire
    \/ Cancel
    \/ \E ch \in DOMAIN chans : WorkerReceive(ch)
    \/ WatchDelete
    \/ WatchDecodeError
    \/ WatchFactoryError
    \/ WatchCreate
    \/ WatchNotify
    \/ TickError
    \/ Tick
    \/ Shutdown

Spec == Init /\ [][Next]_vars

\* The loop in the long run: the timer fires for ever, the workers never
\* receive, the store is mutated at most SteadyStoreOps times.
NextSteady ==
    \/ \E c \in Clusters : StorePut(c, SteadyStoreOps)
    \/ \E c \in Clusters : StoreDelete(c, SteadyStoreOps)
    \/ TimerKeepsFiring
    \/ Cancel
    \/ WatchDelete
    \/ WatchDecodeError
    \/ WatchFactoryError
    \/ WatchCreate
    \/ WatchNotify
    \/ TickError
    \/ Tick
    \/ Shutdown

\* The cases of the select. Go chooses uniformly at random among the ready
\* cases, so a case that stays ready is eventually taken; the ticker keeps
\* firing as time passes.
WatchCase ==
    WatchDelete \/ WatchDecodeError \/ WatchFactoryError \/ WatchCreate \/ WatchNotify

TickCase == TickError \/ Tick

FairSpec ==
    /\ Init
    /\ [][NextSteady]_vars
    /\ WF_vars(TimerKeepsFiring)
    /\ WF_vars(WatchCase)
    /\ WF_vars(TickCase)
    /\ WF_vars(Shutdown)

\* ------------------------------------------------------------ properties
\* vocabulary over the record of the latest iteration
SendEvs == {"sent", "dropped", "send on closed channel"}

LogIdx == DOMAIN last.log

\* a loop iteration (and not a step of the store, the timer, the caller or a
\* worker) takes the state to the next one
LoopStep ==
    \/ watch # <<>> /\ watch' = Tail(watch)
    \/ ticker = 1 /\ ticker' = 0
    \/ pc = "running" /\ pc' # "running"

\* the worker w is started and its channel is open
Live(w) == w \in workers /\ chans[w.ch].open

\* C1: once a channel has been closed, by a watch deletion, by the removal
\* loop of a tick or by shutdown, no iteration of the loop attempts a send on
\* it: no send ever finds its channel closed, and every channel on which the
\* latest iteration attempted a send was open before that iteration or was
\* made by it.
C1_NoSendAfterClose ==
    /\ [](pc # "panic: send on closed channel")
    /\ [](\A i \in LogIdx : last.log[i].ev # "send on closed channel")
    /\ [][LoopStep =>
            \A i \in DOMAIN last'.log :
                last'.log[i].ev \in SendEvs =>
                    \/ last'.log[i].ch \in DOMAIN chans /\ chans[last'.log[i].ch].open
                    \/ last'.log[i].ch \notin DOMAIN chans]_vars

\* a tick closed a lingering worker's channel and then notified another worker
C1_Witness ==
    /\ last.op = "tick"
    /\ \E i, j \in LogIdx :
          /\ i < j
          /\ last.log[i].ev = "close"
          /\ last.log[j].ev \in {"sent", "dropped"}

\* C2: at most one started worker per cluster name has an open channel, and
\* a worker started for a name (also one deleted and created again) gets a
\* channel that did not exist before, open and empty.
C2_AtMostOneLiveWorker ==
    /\ [](\A c \in Clusters :
            Cardinality({w \in workers : w.clusterName = c /\ chans[w.ch].open}) <= 1)
    /\ [][\A w \in workers' \ workers :
            /\ w.ch \notin DOMAIN chans
            /\ \A v \in workers : v.ch # w.ch
            /\ chans'[w.ch].open]_vars

\* a cluster name whose first worker was terminated has a second, live worker
C2_Witness ==
    \E w1, w2 \in workers :
        /\ w1.clusterName = w2.clusterName
        /\ w1.ch # w2.ch
        /\ ~chans[w1.ch].open
        /\ chans[w2.ch].open

\* C3: after a tick whose GetAll succeeded, every registry key is in the
\* snapshot of that tick, and every key registered before the tick and absent
\* from the snapshot had its channel closed and its entry deleted by that tick.
C3_RegistryWithinSnapshot ==
    last.op = "tick" =>
        /\ DOMAIN clusterControllers \subseteq last.snapshot
        /\ \A k \in DOMAIN last.pre \ last.snapshot :
              /\ ~Found(clusterControllers, k)
              /\ ~chans[last.pre[k]].open
              /\ \E i, j \in LogIdx :
                    /\ i < j
                    /\ last.log[i] = Ev("close", last.pre[k], k)
                    /\ last.log[j] = Ev("delete", last.pre[k], k)

\* a tick found a registered cluster missing from its snapshot
C3_Witness ==
    /\ last.op = "tick"
    /\ DOMAIN last.pre \ last.snapshot # {}

\* the latest tick could not create the worker of c
TickFailedFor(c) ==
    \/ last.op = "tick error"
    \/ /\ last.op = "tick"
       /\ \E i \in LogIdx : last.log[i] = Ev("factory error", 0, c)

\* C4: a tick whose snapshot contains a cluster leaves it registered, with a
\* started worker on an open channel, when the cluster was registered before
\* or its Factory call succeeded; the Factory is called on every tick for
\* every cluster of the snapshot that is not registered; and, ticks being
\* taken, a defined cluster without a worker gets one unless it is deleted,
\* the loop stops, or the tick fails for it.
C4_DefinedClusterGetsWorker ==
    /\ [](last.op = "tick" =>
            \A c \in last.snapshot :
                /\ (Found(last.pre, c) \/ \E i \in LogIdx : last.log[i] = Ev("factory ok", 0, c))
                      => /\ Found(clusterControllers, c)
                         /\ Live([clusterName |-> c, ch |-> clusterControllers[c]])
                /\ ~Found(last.pre, c)
                      => \E i \in LogIdx :
                            /\ last.log[i].name = c
                            /\ last.log[i].ev \in {"factory ok", "factory error"})
    /\ \A c \in Clusters :
          (pc = "running" /\ c \in store /\ ~Found(clusterControllers, c))
              ~> \/ Found(clusterControllers, c)
                 \/ c \notin store
                 \/ pc # "running"
                 \/ TickFailedFor(c)

\* a tick created the worker of a defined cluster that was not registered
C4_Witness ==
    /\ last.op = "tick"
    /\ \E c \in last.snapshot :
          /\ ~Found(last.pre, c)
          /\ Found(clusterControllers, c)
          /\ Live([clusterName |-> c, ch |-> clusterControllers[c]])

\* C5 (as stated): every cluster name that has a started worker with an open
\* channel is defined in the store.
C5_WorkerOnlyForDefined ==
    \A w \in workers : chans[w.ch].open => w.clusterName \in store

\* C5 (amended): every cluster name that has a started worker with an open
\* channel is defined in the store, or its deletion is a watch event that the
\* loop has not received yet.
C5_WorkerDefinedOrDeletionPending ==
    \A w \in workers :
        chans[w.ch].open =>
            \/ w.clusterName \in store
            \/ \E i \in DOMAIN watch : watch[i] = [Key |-> w.clusterName, Value |-> "nil"]

\* a worker is live for a cluster that the store no longer defines
C5_Witness ==
    \E w \in workers :
        /\ chans[w.ch].open
        /\ w.clusterName \notin store
        /\ Found(clusterControllers, w.clusterName)

\* a cluster name has a registry entry exactly when a worker was started for it
\* on the registered channel and that channel is open
RegistryIsLiveWorkers ==
    /\ \A c \in DOMAIN clusterControllers :
          Live([clusterName |-> c, ch |-> clusterControllers[c]])
    /\ \A w \in workers :
          chans[w.ch].open =>
              Found(clusterControllers, w.clusterName) /\ clusterControllers[w.clusterName] = w.ch

\* C6 (as stated): in every reachable state, the state after the shutdown case
\* included, a name has a registry entry iff a worker was started for it and
\* that worker's channel has not been closed.
C6_RegistryIffLiveWorker == RegistryIsLiveWorkers

\* C6 (amended): as long as the shutdown case has not run, a name has a
\* registry entry iff a worker was started for it and that worker's channel
\* has not been closed; the shutdown case closes the channels and leaves the
\* entries in the registry.
C6_RegistryIffLiveWorkerWhileRunning ==
    /\ pc = "running" => RegistryIsLiveWorkers
    /\ pc = "returned" =>
          /\ \A w \in workers : ~chans[w.ch].open
          /\ clusterControllers = last.pre

\* the loop runs, one worker is registered and another has been terminated
C6_Witness ==
    /\ pc = "running"
    /\ DOMAIN clusterControllers # {}
    /\ \E w \in workers : ~chans[w.ch].open

\* C7: a full buffer never makes the loop wait: while Run has not returned, a
\* pending watch event, a pending tick and a cancelled context can each be
\* processed, whatever the workers' buffers hold.
C7_SendNeverBlocks ==
    pc = "running" =>
        /\ watch # <<>> => ENABLED WatchCase
        /\ ticker = 1 => ENABLED TickCase
        /\ ctxDone => ENABLED Shutdown

\* with the buffer of one worker full, the loop processed a watch event of
\* another cluster
C7_Witness ==
    /\ last.op = "watch"
    /\ \E c \in DOMAIN clusterControllers :
          /\ c # last.key
          /\ chans[clusterControllers[c]].buf = clusterControllerNotificationBuffer
    /\ \E i \in LogIdx : last.log[i].ev = "sent"

\* C8: a channel never holds more than 10 pending notifications; a send
\* attempted while 10 are pending is dropped, one attempted while fewer are
\* pending is delivered; a dropped send leaves the channel's contents and
\* status and its registry entry as they were, and a watch event whose send is
\* dropped leaves the whole registry and every channel as they were.
C8_DropOnFull ==
    /\ [](\A ch \in DOMAIN chans : chans[ch].buf <= 10)
    /\ [][LoopStep =>
            /\ \A i \in DOMAIN last'.log :
                  LET e == last'.log[i]
                  IN /\ e.ev = "dropped" =>
                          /\ e.ch \in DOMAIN chans
                          /\ chans[e.ch].buf = 10
                          /\ chans'[e.ch] = chans[e.ch]
                          /\ Found(clusterControllers, e.name)
                          /\ Found(clusterControllers', e.name)
                          /\ clusterControllers'[e.name] = clusterControllers[e.name]
                     /\ (e.ev = "sent" /\ e.ch \in DOMAIN chans) =>
                          /\ chans[e.ch].buf < 10
                          /\ chans'[e.ch].buf = chans[e.ch].buf + 1
            /\ (last'.op = "watch" /\ \E i \in DOMAIN last'.log : last'.log[i].ev = "dropped")
                  => /\ clusterControllers' = clusterControllers
                     /\ chans' = chans
                     /\ workers' = workers]_vars

\* the latest iteration attempted a send on a full buffer and dropped it
C8_Witness ==
    \E i \in LogIdx :
        /\ last.log[i].ev = "dropped"
        /\ chans[last.log[i].ch].buf = 10

\* C9: the shutdown case closes the channel of every worker registered at
\* that moment and Run returns; after that, no watch event and no tick is
\* received and the registry, the channels and the workers do not change.
C9_ShutdownClosesAllAndStops ==
    /\ [](pc = "returned" =>
            /\ last.op = "shutdown"
            /\ \A k \in DOMAIN last.pre : ~chans[last.pre[k]].open
            /\ \A w \in workers : ~chans[w.ch].open)
    /\ [][pc = "returned" =>
            /\ ~LoopStep
            /\ UNCHANGED loopVars]_vars

\* Run returned with two workers registered, and a watch event and a tick
\* arrived afterwards
C9_Witness ==
    /\ pc = "returned"
    /\ Cardinality(DOMAIN last.pre) = 2
    /\ watch # <<>>
    /\ ticker = 1

\* C10: Run returns only through the shutdown case, after the context was
\* cancelled, and never panics; once the context is cancelled, Run eventually
\* returns.
C10_RunsUntilCancelled ==
    /\ [](pc \in {"running", "returned"})
    /\ [](pc = "returned" => ctxDone /\ last.op = "shutdown")
    /\ [][pc' # pc => ctxDone]_vars
    /\ ctxDone ~> (pc = "returned")

\* Run is still running after a failed GetAll, and the context is not cancelled
C10_Witness ==
    /\ pc = "running"
    /\ ~ctxDone
    /\ last.op = "tick error"
    /\ chans # <<>>

\* the send attempts of the latest iteration on the channel ch
Attempts(ch) ==
    Cardinality({i \in LogIdx : last.log[i].ev \in SendEvs /\ last.log[i].ch = ch})

\* the loop receives the watch event at the head of the stream
WatchStep == watch # <<>> /\ watch' = Tail(watch)

\* C11: a watch event with a valid definition for an untracked cluster, the
\* Factory succeeding, puts the new channel in the registry, then starts the
\* worker on it, then makes exactly one send attempt on it: the iteration is
\* Factory, make, register, start, send, in this order, and nothing else.
C11_WatchCreateOrder ==
    [][(WatchStep /\ Head(watch).Key \notin DOMAIN clusterControllers
          /\ \E i \in DOMAIN last'.log : last'.log[i].ev = "factory ok")
        => LET k == Head(watch).Key
               ch == Len(chans) + 1
           IN /\ Head(watch).Value # "nil"
              /\ last'.log = << Ev("factory ok", 0, k), Ev("make", ch, k),
                                Ev("register", ch, k), Ev("start", ch, k),
                                Ev("sent", ch, k) >>
              /\ DOMAIN clusterControllers' = DOMAIN clusterControllers \cup {k}
              /\ clusterControllers'[k] = ch
              /\ \A c \in DOMAIN clusterControllers : clusterControllers'[c] = clusterControllers[c]
              /\ workers' = workers \cup {[clusterName |-> k, ch |-> ch]}
              /\ chans' = Append(chans, [open |-> TRUE, buf |-> 1])]_vars

\* a watch event created a worker while another cluster was registered
C11_Witness ==
    /\ last.op = "watch"
    /\ \E i \in LogIdx : last.log[i].ev = "register"
    /\ DOMAIN last.pre # {}
    /\ Cardinality(DOMAIN clusterControllers) = 2

\* C12: a watch event that is not a deletion, for a cluster already in the
\* registry, calls no Factory, starts no worker, leaves the registry as it
\* was and makes exactly one send attempt, on the channel registered for that
\* cluster; no other channel changes.
C12_WatchNotifyOnly ==
    [][(WatchStep /\ Head(watch).Key \in DOMAIN clusterControllers
          /\ Head(watch).Value # "nil")
        => LET k == Head(watch).Key
               ch == clusterControllers[k]
           IN /\ clusterControllers' = clusterControllers
              /\ workers' = workers
              /\ Len(last'.log) = 1
              /\ last'.log[1].ch = ch
              /\ last'.log[1].ev \in {"sent", "dropped"}
              /\ DOMAIN chans' = DOMAIN chans
              /\ \A o \in DOMAIN chans : o # ch => chans'[o] = chans[o]
              /\ chans'[ch].open
              /\ chans'[ch].buf =
                    IF last'.log[1].ev = "sent" THEN chans[ch].buf + 1 ELSE chans[ch].buf]_vars

\* an update of a tracked cluster was received while another worker existed
C12_Witness ==
    /\ last.op = "watch"
    /\ Found(last.pre, last.key)
    /\ \E i \in LogIdx : last.log[i].ev = "sent"
    /\ Cardinality(workers) = 2

\* C13: a deletion watch event for a cluster in the registry closes that
\* cluster's channel and deletes that entry, attempts no send, and leaves
\* every other entry and channel as it was.
C13_WatchDeleteOnlyThat ==
    [][(WatchStep /\ Head(watch).Key \in DOMAIN clusterControllers
          /\ Head(watch).Value = "nil")
        => LET k == Head(watch).Key
               ch == clusterControllers[k]
           IN /\ last'.log = << Ev("close", ch, k), Ev("delete", ch, k) >>
              /\ DOMAIN clusterControllers' = DOMAIN clusterControllers \ {k}
              /\ \A c \in DOMAIN clusterControllers' :
                    clusterControllers'[c] = clusterControllers[c]
              /\ ~chans'[ch].open
              /\ DOMAIN chans' = DOMAIN chans
              /\ \A o \in DOMAIN chans : o # ch => chans'[o] = chans[o]
              /\ workers' = workers
              /\ pc' = "running"]_vars

\* a deletion event terminated one worker and left the other registered
C13_Witness ==
    /\ last.op = "watch"
    /\ \E i \in LogIdx : last.log[i].ev = "close"
    /\ DOMAIN clusterControllers # {}
    /\ \A c \in DOMAIN clusterControllers : chans[clusterControllers[c]].open

\* the loop receives a tick
TickStep == ticker = 1 /\ ticker' = 0

\* C14: a tick whose GetAll fails is skipped: the registry, the channels and
\* the workers are as before it, nothing was started, closed or sent, and Run
\* goes on to the next event.
C14_SnapshotErrorSkipsTick ==
    [][(TickStep /\ last'.op = "tick error")
        => /\ clusterControllers' = clusterControllers
           /\ chans' = chans
           /\ workers' = workers
           /\ last'.log = <<>>
           /\ pc' = "running"]_vars

\* GetAll failed on a tick while a worker was registered for a cluster that
\* the store no longer defines
C14_Witness ==
    /\ last.op = "tick error"
    /\ \E c \in DOMAIN clusterControllers : c \notin store
    /\ pc = "running"

\* C15: a Factory error for one cluster of the snapshot does not end the
\* tick: the Factory is still called for every other unregistered cluster of
\* the snapshot, those whose call succeeds are registered and started, the
\* lingering workers are closed and removed, and a send is attempted on every
\* registered channel.
C15_FactoryErrorIsolated ==
    (last.op = "tick" /\ \E i \in LogIdx : last.log[i].ev = "factory error") =>
        /\ \A c \in last.snapshot \ DOMAIN last.pre :
              /\ \E i \in LogIdx :
                    last.log[i].name = c /\ last.log[i].ev \in {"factory ok", "factory error"}
              /\ (\E i \in LogIdx : last.log[i] = Ev("factory ok", 0, c))
                    => /\ c \in DOMAIN clusterControllers
                       /\ [clusterName |-> c, ch |-> clusterControllers[c]] \in workers
                       /\ \E i \in LogIdx : last.log[i] = Ev("start", clusterControllers[c], c)
        /\ \A k \in DOMAIN last.pre \ last.snapshot :
              /\ k \notin DOMAIN clusterControllers
              /\ ~chans[last.pre[k]].open
        /\ \A k \in DOMAIN clusterControllers : Attempts(clusterControllers[k]) = 1

\* in one tick the Factory failed for one cluster and a worker was created for
\* another
C15_Witness ==
    /\ last.op = "tick"
    /\ \E i, j \in LogIdx :
          /\ last.log[i].ev = "factory error"
          /\ last.log[j].ev = "register"

\* C16: a watch event for an untracked cluster whose value does not decode, or
\* whose Factory call fails, leaves the registry, the channels and the workers
\* as they were and attempts no send; the cluster stays absent, Run goes on,
\* and a later watch event with a definition for an untracked cluster can
\* still create its worker.
C16_WatchErrorLeavesAbsent ==
    /\ [][(WatchStep /\ Head(watch).Key \notin DOMAIN clusterControllers
            /\ ~\E i \in DOMAIN last'.log : last'.log[i].ev = "factory ok")
          => /\ clusterControllers' = clusterControllers
             /\ chans' = chans
             /\ workers' = workers
             /\ last'.log \in {<<>>, << Ev("factory error", 0, Head(watch).Key) >>}
             /\ pc' = "running"]_vars
    /\ [](( /\ pc = "running"
            /\ watch # <<>>
            /\ Head(watch).Value # "nil"
            /\ Head(watch).Key \notin DOMAIN clusterControllers)
          => ENABLED WatchCreate)

\* the Factory failed on a watch event, the cluster is absent, and another
\* event for it is pending
C16_Witness ==
    /\ last.op = "watch"
    /\ last.log = << Ev("factory error", 0, last.key) >>
    /\ ~Found(clusterControllers, last.key)
    /\ watch # <<>>
    /\ Head(watch) = [Key |-> last.key, Value |-> "def"]

\* C17: a tick whose GetAll succeeded attempts one send on the channel of
\* every worker registered when the tick ends, whether it was registered
\* before or created by the tick, and none on a channel the tick closed.
C17_TickPokesRegistered ==
    last.op = "tick" =>
        /\ \A k \in DOMAIN clusterControllers : Attempts(clusterControllers[k]) >= 1
        /\ \A i \in LogIdx :
              last.log[i].ev = "close" => Attempts(last.log[i].ch) = 0
        /\ \A i \in LogIdx :
              last.log[i].ev \in SendEvs =>
                  /\ last.log[i].name \in DOMAIN clusterControllers
                  /\ clusterControllers[last.log[i].name] = last.log[i].ch

\* a tick closed a lingering worker's channel and its send to the remaining
\* worker, whose buffer was full, was dropped
C17_Witness ==
    /\ last.op = "tick"
    /\ \E i, j \in LogIdx :
          /\ last.log[i].ev = "close"
          /\ last.log[j].ev = "dropped"

\* the channels the latest iteration made
Created == {last.log[i].ch : i \in {j \in LogIdx : last.log[j].ev = "register"}}

\* C18 (as stated): a worker created during a tick receives two send attempts
\* in that tick, the first when it is created and the second from the final
\* sweep, while a worker that was already registered receives one.
C18_TickCreatedNotifiedTwice ==
    last.op = "tick" =>
        \A k \in DOMAIN clusterControllers :
            Attempts(clusterControllers[k]) =
                IF clusterControllers[k] \in Created THEN 2 ELSE 1

\* C18 (amended): a worker created during a tick is registered and started as
\* on the watch path but without the first send attempt: it receives exactly
\* one send attempt in that tick, from the final sweep, as a worker that was
\* already registered does.
C18_TickCreatedNotifiedOnce ==
    last.op = "tick" =>
        /\ \A k \in DOMAIN clusterControllers :
              Attempts(clusterControllers[k]) = 1
        /\ \A i, j \in LogIdx :
              (last.log[i].ev \in SendEvs /\ last.log[j].ev \notin SendEvs) => j < i
        /\ \A ch \in Created :
              /\ \E k \in DOMAIN clusterControllers : clusterControllers[k] = ch
              /\ \E w \in workers : w.ch = ch
              /\ \E i \in LogIdx : last.log[i] = Ev("sent", ch, last.log[i].name)

\* a tick created one worker and notified it and a worker registered before
C18_Witness ==
    /\ last.op = "tick"
    /\ Created # {}
    /\ \E k \in DOMAIN clusterControllers :
          /\ clusterControllers[k] \notin Created
          /\ Attempts(clusterControllers[k]) = 1

\* C19: no channel is closed twice, whatever the watch deletions, ticks and
\* shutdown: every close finds its channel open and registered, an iteration
\* closes a channel at most once, and a close by a watch deletion or by a tick
\* is followed in the same iteration by the deletion of its registry entry.
C19_ClosedAtMostOnce ==
    /\ [](pc # "panic: close of closed channel")
    /\ [][\A ch \in DOMAIN chans : ~chans[ch].open => ~chans'[ch].open]_vars
    /\ [][LoopStep =>
            \A i \in DOMAIN last'.log :
                LET e == last'.log[i]
                IN /\ e.ev # "close of closed channel"
                   /\ e.ev = "close" =>
                        /\ e.ch \in DOMAIN chans
                        /\ chans[e.ch].open
                        /\ ~chans'[e.ch].open
                        /\ e.name \in DOMAIN clusterControllers
                        /\ clusterControllers[e.name] = e.ch
                        /\ \A j \in DOMAIN last'.log :
                              (last'.log[j].ev = "close" /\ last'.log[j].ch = e.ch) => j = i
                        /\ last'.op \in {"watch", "tick"} =>
                              /\ i < Len(last'.log)
                              /\ last'.log[i + 1] = Ev("delete", e.ch, e.name)
                              /\ e.name \notin DOMAIN clusterControllers'
                              /\ \A k \in DOMAIN clusterControllers' :
                                    clusterControllers'[k] # e.ch]_vars

\* the shutdown case closed a channel after an earlier iteration had closed
\* another one
C19_Witness ==
    /\ pc = "returned"
    /\ \E i \in LogIdx : last.log[i].ev = "close"
    /\ Cardinality({ch \in DOMAIN chans : ~chans[ch].open}) >= 2

\* C20: a deletion watch event for a cluster that is not in the registry does
\* nothing: no Factory call, no worker, no registry entry, no close, no send.
C20_UntrackedDeletionNoop ==
    [][(WatchStep /\ Head(watch).Key \notin DOMAIN clusterControllers
          /\ Head(watch).Value = "nil")
        => /\ clusterControllers' = clusterControllers
           /\ chans' = chans
           /\ workers' = workers
           /\ last'.log = <<>>
           /\ pc' = "running"]_vars

\* the loop received a deletion for a cluster it had no worker for
C20_Witness ==
    /\ last.op = "watch"
    /\ last.log = <<>>
    /\ last.key \notin store
    /\ storeOps > 0
    /\ \A i \in DOMAIN watch : watch[i].Key # last.key
    /\ \A w \in workers : w.clusterName # last.key

====
